---- MODULE Spec2Model ----
(***************************************************************************)
(* Attendance and result reconciliation of the school administration app.  *)
(* The three mutable tables (Attendance, AttendanceReport, StudentResult)  *)
(* are sequences of rows, a row's primary key being its position.  Each    *)
(* request handler is a small process whose steps are the ORM calls it     *)
(* issues, one database statement per step (the database runs in           *)
(* autocommit mode: no handler opens a transaction).                       *)
(***************************************************************************)
EXTENDS Integers, Sequences, FiniteSets, TLC

\* ------------------------------------------------------------------ bounds
MaxLen == 2       \* longest student_ids list of a request
MaxCalls == 2     \* requests started in one behaviour
MaxResultCalls == 3   \* of which staff_add_result / EditResultView requests
MaxUsers == 2     \* CustomUser rows created
MaxSaves == 2     \* later saves of one CustomUser

\* ---------------------------------------------------------------- fixtures
\* Rows of the tables no modelled handler writes.  Student ids and the user
\* ids of their accounts overlap without coinciding (user 1 is the HOD).
Procs == {1, 2}
StudentRows == {[id |-> 1, admin_id |-> 2], [id |-> 2, admin_id |-> 3]}
SubjectIds == {1}
SessionIds == {1}

\* Values a request may carry.
Ids == {1, 2, 3}
SubjectInputs == {1, 2}
DateInputs == {1, 2}
SessionInputs == {1, 2}
Entries == [id : Ids, status : BOOLEAN]
Submissions == {<<"70", "80">>, <<"90", "85">>, <<"abc", "80">>}

VARIABLES
    attendance,   \* Attendance rows       [session, subject, date]
    reports,      \* AttendanceReport rows [student, attendance, status]
    results,      \* StudentResult rows    [student, subject, test, exam]
    pc,           \* position of each request process
    req,          \* the request each process is serving
    loc,          \* its local variables
    resp,         \* the outcome of its last finished request
    calls,        \* requests started so far
    firstSeen,    \* history: first status a save request carried for (key, student)
    lastUpd,      \* history: last status an update request carried for (event, student)
    lastSub,      \* history: last well-formed result submission for (student, subject)
    carried,    \* history: every status a request carried for (event, student)
    base,         \* history: number of AttendanceReport rows when the request began
    users,        \* CustomUser rows       [user_type, held, saves]
    profiles      \* Admin / Staff / Student rows [role, admin]

vars == <<attendance, reports, results, pc, req, loc, resp, calls,
          firstSeen, lastUpd, lastSub, carried, base, users, profiles>>

\* The identity tables, which no attendance or result handler writes.
identity == <<users, profiles>>


\* ----------------------------------------------------------------- helpers
AtRest(p) == pc[p] \in {"idle", "done"}

NoEntry == [id |-> 0, status |-> FALSE]
NoReq == [op |-> "none", subject |-> 0, session |-> 0, date |-> 0,
          student |-> 0, test |-> "", exam |-> ""]
NoLoc == [att |-> 0, idx |-> 1, row |-> 0, cur |-> NoEntry]
NoResp == [body |-> "", exc |-> "", test |-> 0, exam |-> 0, data |-> <<>>]

\* float(): the POST value as the FloatField stores it.
FloatTable == [s \in {"70", "80", "85", "90"} |->
                 CASE s = "70" -> 70 [] s = "80" -> 80 [] s = "85" -> 85 [] OTHER -> 90]
IsFloat(s) == s \in DOMAIN FloatTable
ToFloat(s) == FloatTable[s]

StudentById(id) == {s \in StudentRows : s.id = id}
StudentByAdmin(id) == {s \in StudentRows : s.admin_id = id}

\* Mutant: the lookup never matches (say, the date compared in another form).
EventLookup_NoMatch(session, subject, date) == {}

\* Attendance.objects.get(session=, subject=, date=): the rows it matches.
EventLookup(session, subject, date) ==
    {i \in DOMAIN attendance : /\ attendance[i].session = session
                               /\ attendance[i].subject = subject
                               /\ attendance[i].date = date}

\* AttendanceReport lookup by (student, attendance): the rows it matches.
ReportLookup(student, att) ==
    {i \in DOMAIN reports : /\ reports[i].student = student
                            /\ reports[i].attendance = att}

\* StudentResult.objects.get(student=, subject=): the rows it matches.
ResultLookup(student, subject) ==
    {i \in DOMAIN results : /\ results[i].student = student
                            /\ results[i].subject = subject}

\* The exception Model.objects.get raises for a set of matching rows.
GetExc(m) == IF m = {} THEN "DoesNotExist" ELSE "MultipleObjectsReturned"
\* get_object_or_404 turns DoesNotExist into Http404.
Get404Exc(m) == IF m = {} THEN "Http404" ELSE "MultipleObjectsReturned"

TheOne(m) == CHOOSE i \in m : TRUE


\* The handler returns: `body` is its response, `exc` the exception it caught.
Finish(p, body, exc) ==
    /\ pc' = [pc EXCEPT ![p] = "done"]
    /\ resp' = [resp EXCEPT ![p] = [NoResp EXCEPT !.body = body, !.exc = exc]]

\* A request is accepted once the responses of finished ones are delivered,
\* and taken by the first idle process.
Begin(p, r, label) ==
    /\ pc[p] = "idle"
    /\ \A q \in Procs : q < p => pc[q] # "idle"
    /\ \A q \in Procs : pc[q] # "done"
    /\ calls < (IF r.op \in {"result", "edit"} THEN MaxResultCalls ELSE MaxCalls)
    /\ calls' = calls + 1
    /\ base' = [base EXCEPT ![p] = Len(reports)]
    /\ req' = [req EXCEPT ![p] = r]
    /\ loc' = [loc EXCEPT ![p] = NoLoc]
    /\ pc' = [pc EXCEPT ![p] = label]
    /\ UNCHANGED resp

\* The response leaves; the process is free for the next request.
Respond(p) ==
    /\ pc[p] = "done"
    /\ pc' = [pc EXCEPT ![p] = "idle"]
    /\ req' = [req EXCEPT ![p] = NoReq]
    /\ loc' = [loc EXCEPT ![p] = NoLoc]
    /\ resp' = [resp EXCEPT ![p] = NoResp]
    /\ base' = [base EXCEPT ![p] = 0]
    /\ UNCHANGED <<attendance, reports, results, calls, firstSeen, lastUpd, lastSub,
                   carried, identity>>

Init ==
    /\ attendance = <<>>
    /\ reports = <<>>
    /\ results = <<>>
    /\ pc = [p \in Procs |-> "idle"]
    /\ req = [p \in Procs |-> NoReq]
    /\ loc = [p \in Procs |-> NoLoc]
    /\ resp = [p \in Procs |-> NoResp]
    /\ calls = 0
    /\ firstSeen = {}
    /\ lastUpd = {}
    /\ lastSub = {}
    /\ carried = {}
    /\ base = [p \in Procs |-> 0]
    /\ users = <<>>
    /\ profiles = <<>>

\* Mutant: the except clause undoes the request by deleting the reports of
\* its event.
AfterException_Rollback(p) ==
    [attendance |-> attendance,
     reports |-> SelectSeq(reports, LAMBDA r : r.attendance # loc[p].att)]

\* The attendance tables after a handler's except clause: nothing the request
\* wrote is undone (no transaction wraps the loop).
AfterException(p) == [attendance |-> attendance, reports |-> reports]

\* `except Exception as e: return None`
Abort(p, exc) ==
    /\ Finish(p, "None", exc)
    /\ attendance' = AfterException(p).attendance
    /\ reports' = AfterException(p).reports

\* --------------------------------------------------------- save_attendance
\* The request arrives: its POST fields are read and student_ids is parsed.
\* The entries of the list are drawn as the loop reaches them.
StartSave(p) ==
    /\ \E su \in SubjectInputs, d \in DateInputs :
         Begin(p, [NoReq EXCEPT !.op = "save", !.subject = su, !.session = 1,
                                !.date = d], "sa_event")
    /\ UNCHANGED <<attendance, reports, results, firstSeen, lastUpd, lastSub,
                   carried, identity>>

\* Session and Subject are resolved, then get_or_create issues its SELECT.
SaGetEvent(p) ==
    /\ pc[p] = "sa_event"
    /\ LET r == req[p]
           m == EventLookup(r.session, r.subject, r.date)
       IN  IF r.session \notin SessionIds \/ r.subject \notin SubjectIds
           THEN Abort(p, "Http404") /\ UNCHANGED loc
           ELSE IF m = {}
           THEN /\ pc' = [pc EXCEPT ![p] = "sa_create_event"]
                /\ UNCHANGED <<attendance, reports, loc, resp>>
           ELSE IF Cardinality(m) = 1
           THEN /\ loc' = [loc EXCEPT ![p].att = TheOne(m)]
                /\ pc' = [pc EXCEPT ![p] = "sa_loop"]
                /\ UNCHANGED <<attendance, reports, resp>>
           ELSE Abort(p, GetExc(m)) /\ UNCHANGED loc
    /\ UNCHANGED <<results, req, calls, firstSeen, lastUpd, lastSub, carried,
                   base, identity>>

\* Mutant: instead of inserting, the handler re-keys the first Attendance row
\* when the table has one.
SaCreateEvent_Rekey(p) ==
    /\ pc[p] = "sa_create_event"
    /\ attendance' = IF attendance = <<>>
                      THEN <<[session |-> req[p].session, subject |-> req[p].subject,
                              date |-> req[p].date]>>
                      ELSE [attendance EXCEPT ![1].date = req[p].date,
                                              ![1].subject = req[p].subject]
    /\ loc' = [loc EXCEPT ![p].att = 1]
    /\ pc' = [pc EXCEPT ![p] = "sa_loop"]
    /\ UNCHANGED <<reports, results, req, resp, calls, firstSeen, lastUpd, lastSub,
                   carried, base, identity>>

\* get_or_create found no row: it INSERTs one.  No unique constraint covers
\* (session, subject, date), so the INSERT always succeeds.
SaCreateEvent(p) ==
    /\ pc[p] = "sa_create_event"
    /\ attendance' = Append(attendance, [session |-> req[p].session,
                                         subject |-> req[p].subject,
                                         date |-> req[p].date])
    /\ loc' = [loc EXCEPT ![p].att = Len(attendance) + 1]
    /\ pc' = [pc EXCEPT ![p] = "sa_loop"]
    /\ UNCHANGED <<reports, results, req, resp, calls, firstSeen, lastUpd, lastSub,
                   carried, base, identity>>

\* Mutant: the status is written whether or not the report was just created.
StatusWritten_Always(report_created) == TRUE

\* `if report_created:` - whether the status of the request is written.
StatusWritten(report_created) == report_created

\* History: the first status a save request carried for a student under a key.
NoteFirst(r, student, status) ==
    IF \E f \in firstSeen : /\ f.subject = r.subject /\ f.session = r.session
                            /\ f.date = r.date /\ f.student = student
    THEN firstSeen
    ELSE firstSeen \cup {[subject |-> r.subject, session |-> r.session,
                          date |-> r.date, student |-> student, status |-> status]}

\* History: one more status a request carried for the report of (event, student).
NoteCarried(att, student, status) ==
    carried \cup {[att |-> att, student |-> student, status |-> status]}

\* The loop moves to its next entry; student_dict stays bound to entry e.
NextEntry(p, e) == loc' = [loc EXCEPT ![p].idx = @ + 1, ![p].cur = e]

\* One turn of the loop up to the SELECT of AttendanceReport's get_or_create:
\* the list is exhausted, or its next entry e is processed.
SaLoop(p) ==
    /\ pc[p] = "sa_loop"
    /\ \E more \in BOOLEAN, e \in Entries :
         IF ~more \/ loc[p].idx > MaxLen
         THEN /\ Finish(p, "OK", "")
              /\ UNCHANGED <<attendance, reports, loc, firstSeen, carried>>
         ELSE IF StudentById(e.id) = {}
         THEN /\ Abort(p, "Http404")
              /\ loc' = [loc EXCEPT ![p].cur = e]
              /\ UNCHANGED <<firstSeen, carried>>
         ELSE LET m == ReportLookup(e.id, loc[p].att)
              IN  /\ firstSeen' = NoteFirst(req[p], e.id, e.status)
                  /\ carried' = NoteCarried(loc[p].att, e.id, e.status)
                  /\ IF m = {}
                     THEN /\ pc' = [pc EXCEPT ![p] = "sa_create_report"]
                          /\ loc' = [loc EXCEPT ![p].cur = e]
                          /\ UNCHANGED <<attendance, reports, resp>>
                     ELSE IF Cardinality(m) = 1
                     THEN /\ UNCHANGED <<attendance, reports, resp>>
                          /\ IF StatusWritten(FALSE)
                             THEN /\ loc' = [loc EXCEPT ![p].row = TheOne(m),
                                                        ![p].cur = e]
                                  /\ pc' = [pc EXCEPT ![p] = "sa_status"]
                             ELSE /\ NextEntry(p, e)
                                  /\ UNCHANGED pc
                     ELSE Abort(p, GetExc(m)) /\ loc' = [loc EXCEPT ![p].cur = e]
    /\ UNCHANGED <<results, req, calls, lastUpd, lastSub, base, identity>>

\* get_or_create found no report: it INSERTs one, status at the field's
\* default (False).  No unique constraint covers (student, attendance).
SaCreateReport(p) ==
    /\ pc[p] = "sa_create_report"
    /\ reports' = Append(reports, [student |-> loc[p].cur.id,
                                   attendance |-> loc[p].att,
                                   status |-> FALSE])
    /\ IF StatusWritten(TRUE)
       THEN /\ loc' = [loc EXCEPT ![p].row = Len(reports) + 1]
            /\ pc' = [pc EXCEPT ![p] = "sa_status"]
       ELSE /\ NextEntry(p, loc[p].cur)
            /\ pc' = [pc EXCEPT ![p] = "sa_loop"]
    /\ UNCHANGED <<attendance, results, req, resp, calls, firstSeen, lastUpd, lastSub,
                   carried, base, identity>>

\* attendance_report.status = student_dict.get('status'); attendance_report.save()
SaStatus(p) ==
    /\ pc[p] = "sa_status"
    /\ reports' = [reports EXCEPT ![loc[p].row].status = loc[p].cur.status]
    /\ NextEntry(p, loc[p].cur)
    /\ pc' = [pc EXCEPT ![p] = "sa_loop"]
    /\ UNCHANGED <<attendance, results, req, resp, calls, firstSeen, lastUpd, lastSub,
                   carried, base, identity>>

\* ------------------------------------------------------- update_attendance
\* The request arrives; its 'date' field is the Attendance id.
StartUpdate(p) ==
    /\ \E a \in 1..(Len(attendance) + 1) :
         Begin(p, [NoReq EXCEPT !.op = "update", !.date = a], "ua_event")
    /\ UNCHANGED <<attendance, reports, results, firstSeen, lastUpd, lastSub,
                   carried, identity>>

\* get_object_or_404(Attendance, id=date)
UaGetEvent(p) ==
    /\ pc[p] = "ua_event"
    /\ IF req[p].date \in DOMAIN attendance
       THEN /\ loc' = [loc EXCEPT ![p].att = req[p].date]
            /\ pc' = [pc EXCEPT ![p] = "ua_loop"]
            /\ UNCHANGED <<attendance, reports, resp>>
       ELSE Abort(p, "Http404") /\ UNCHANGED loc
    /\ UNCHANGED <<results, req, calls, firstSeen, lastUpd, lastSub, carried,
                   base, identity>>

\* History: the last status an update request carried for (event, student),
\* and the status the report had when that request found it.
NoteLast(att, student, status, prev) ==
    {u \in lastUpd : ~(u.att = att /\ u.student = student)}
        \cup {[att |-> att, student |-> student, status |-> status, prev |-> prev]}

\* The outcome of get_object_or_404(AttendanceReport, ...) for the rows m it
\* matches: the row it returns, or 0 when it raises.
ReportOr404(m) == IF Cardinality(m) = 1 THEN TheOne(m) ELSE 0

\* Mutant: the report is looked up with get_or_create, as in save_attendance.
UaLoop_GetOrCreate(p) ==
    /\ pc[p] = "ua_loop"
    /\ \E more \in BOOLEAN, e \in Entries :
         IF ~more \/ loc[p].idx > MaxLen
         THEN /\ Finish(p, "OK", "")
              /\ UNCHANGED <<attendance, reports, loc, lastUpd, carried>>
         ELSE IF StudentByAdmin(e.id) = {}
         THEN /\ Abort(p, "Http404")
              /\ loc' = [loc EXCEPT ![p].cur = e]
              /\ UNCHANGED <<lastUpd, carried>>
         ELSE LET st == TheOne(StudentByAdmin(e.id))
                  m == ReportLookup(st.id, loc[p].att)
              IN  /\ carried' = NoteCarried(loc[p].att, st.id, e.status)
                  /\ reports' = IF m = {}
                                THEN Append(reports, [student |-> st.id,
                                                      attendance |-> loc[p].att,
                                                      status |-> FALSE])
                                ELSE reports
                  /\ loc' = [loc EXCEPT ![p].cur = e,
                                        ![p].row = IF m = {} THEN Len(reports) + 1
                                                             ELSE TheOne(m)]
                  /\ pc' = [pc EXCEPT ![p] = "ua_save"]
                  /\ UNCHANGED <<attendance, resp, lastUpd>>
    /\ UNCHANGED <<results, req, calls, firstSeen, lastSub, base, identity>>

\* One turn of the loop: the student by admin_id, then the report's SELECT.
UaLoop(p) ==
    /\ pc[p] = "ua_loop"
    /\ \E more \in BOOLEAN, e \in Entries :
         IF ~more \/ loc[p].idx > MaxLen
         THEN /\ Finish(p, "OK", "")
              /\ UNCHANGED <<attendance, reports, loc, lastUpd, carried>>
         ELSE IF StudentByAdmin(e.id) = {}
         THEN /\ Abort(p, "Http404")
              /\ loc' = [loc EXCEPT ![p].cur = e]
              /\ UNCHANGED <<lastUpd, carried>>
         ELSE LET st == TheOne(StudentByAdmin(e.id))
                  m == ReportLookup(st.id, loc[p].att)
              IN  IF ReportOr404(m) # 0
                  THEN /\ carried' = NoteCarried(loc[p].att, st.id, e.status)
                       /\ loc' = [loc EXCEPT ![p].row = ReportOr404(m), ![p].cur = e]
                       /\ pc' = [pc EXCEPT ![p] = "ua_save"]
                       /\ lastUpd' = NoteLast(loc[p].att, st.id, e.status,
                                               reports[ReportOr404(m)].status)
                       /\ UNCHANGED <<attendance, reports, resp>>
                  ELSE /\ Abort(p, Get404Exc(m))
                       /\ loc' = [loc EXCEPT ![p].cur = e]
                       /\ UNCHANGED <<lastUpd, carried>>
    /\ UNCHANGED <<results, req, calls, firstSeen, lastSub, base, identity>>

\* Mutant: the update keeps the stored status (first write wins here too).
UpdatedStatus_KeepOld(old, submitted) == old

\* The status attendance_report.save() stores.
UpdatedStatus(old, submitted) == submitted

\* Mutant: the status is written to every report of the event (an UPDATE
\* filtered by attendance alone).
UaSave_WholeEvent(p) ==
    /\ pc[p] = "ua_save"
    /\ reports' = [i \in DOMAIN reports |->
                     IF reports[i].attendance = loc[p].att
                     THEN [reports[i] EXCEPT !.status = loc[p].cur.status]
                     ELSE reports[i]]
    /\ NextEntry(p, loc[p].cur)
    /\ pc' = [pc EXCEPT ![p] = "ua_loop"]
    /\ UNCHANGED <<attendance, results, req, resp, calls, firstSeen, lastUpd, lastSub,
                   carried, base, identity>>

\* attendance_report.status = student_dict.get('status'); attendance_report.save()
UaSave(p) ==
    /\ pc[p] = "ua_save"
    /\ reports' = [reports EXCEPT ![loc[p].row].status =
                                      UpdatedStatus(@, loc[p].cur.status)]
    /\ NextEntry(p, loc[p].cur)
    /\ pc' = [pc EXCEPT ![p] = "ua_loop"]
    /\ UNCHANGED <<attendance, results, req, resp, calls, firstSeen, lastUpd, lastSub,
                   carried, base, identity>>

\* -------------------------------------------------- get_student_attendance
\* attendance.student.admin.id: the user id of the student's account.
AdminIdOf(student) == TheOne(StudentById(student)).admin_id

\* student_data: one entry per report of the event, in table order.
StudentData(att) ==
    LET rows == SelectSeq(reports, LAMBDA r : r.attendance = att)
    IN  [k \in DOMAIN rows |-> [id |-> AdminIdOf(rows[k].student),
                                status |-> rows[k].status]]

\* The value the handler returns for attendance_date_id = a: the JSON list, or
\* the exception it caught.
AttendanceResponse(a) ==
    IF a \in DOMAIN attendance
    THEN [NoResp EXCEPT !.body = "json", !.data = StudentData(a)]
    ELSE [NoResp EXCEPT !.body = "Http404", !.exc = "Http404"]

\* The whole handler is one read.
GetStudentAttendance(p) ==
    /\ pc[p] = "idle"
    /\ \A q \in Procs : pc[q] # "done"
    /\ \E a \in 1..(Len(attendance) + 1) :
         /\ req' = [req EXCEPT ![p] = [NoReq EXCEPT !.op = "get_att", !.date = a]]
         /\ resp' = [resp EXCEPT ![p] = AttendanceResponse(a)]
    /\ pc' = [pc EXCEPT ![p] = "done"]
    /\ UNCHANGED <<attendance, reports, results, loc, calls, firstSeen, lastUpd,
                   lastSub, carried, base, identity>>

\* -------------------------------------------------------- staff_add_result
\* History: the last well-formed submission for an existing (student, subject).
NoteSub(student, subject, sub) ==
    IF /\ StudentById(student) # {} /\ subject \in SubjectIds
       /\ IsFloat(sub[1]) /\ IsFloat(sub[2])
    THEN {u \in lastSub : ~(u.student = student /\ u.subject = subject)}
           \cup {[student |-> student, subject |-> subject,
                  test |-> ToFloat(sub[1]), exam |-> ToFloat(sub[2])]}
    ELSE lastSub

\* The POST arrives with student_list, subject, test and exam.
StartAddResult(p) ==
    /\ \E st \in Ids, su \in SubjectInputs, sub \in Submissions :
         /\ Begin(p, [NoReq EXCEPT !.op = "result", !.student = st, !.subject = su,
                                   !.test = sub[1], !.exam = sub[2]], "r_get")
         /\ lastSub' = NoteSub(st, su, sub)
    /\ UNCHANGED <<attendance, reports, results, firstSeen, lastUpd, carried,
                   identity>>

\* Mutant: the lookup result is ignored and the handler always inserts.
Found_Never(m) == FALSE

\* Whether StudentResult.objects.get returns a row; any exception it raises
\* (DoesNotExist, MultipleObjectsReturned) lands in the bare `except:`.
Found(m) == Cardinality(m) = 1

\* Student and Subject are resolved, then StudentResult.objects.get SELECTs.
RGet(p) ==
    /\ pc[p] = "r_get"
    /\ LET r == req[p]
           m == ResultLookup(r.student, r.subject)
       IN  IF StudentById(r.student) = {} \/ r.subject \notin SubjectIds
           THEN Finish(p, "Error Occured While Processing Form", "Http404")
                /\ UNCHANGED loc
           ELSE IF Found(m)
           THEN /\ loc' = [loc EXCEPT ![p].row = TheOne(m)]
                /\ pc' = [pc EXCEPT ![p] = "r_update"]
                /\ UNCHANGED resp
           ELSE /\ pc' = [pc EXCEPT ![p] = "r_insert"]
                /\ UNCHANGED <<loc, resp>>
    /\ UNCHANGED <<attendance, reports, results, req, calls, firstSeen, lastUpd,
                   lastSub, carried, base, identity>>

\* The row data.save() stores over `old` for the request r.
UpdatedResult(old, r) == [old EXCEPT !.exam = ToFloat(r.exam), !.test = ToFloat(r.test)]

\* data.exam = exam; data.test = test; data.save().  A value the FloatField
\* cannot convert makes save() raise inside the inner try: the bare except
\* then runs the insert branch.
RUpdate(p) ==
    /\ pc[p] = "r_update"
    /\ IF IsFloat(req[p].test) /\ IsFloat(req[p].exam)
       THEN /\ results' = [results EXCEPT ![loc[p].row] = UpdatedResult(@, req[p])]
            /\ Finish(p, "Scores Updated", "")
       ELSE /\ pc' = [pc EXCEPT ![p] = "r_insert"]
            /\ UNCHANGED <<results, resp>>
    /\ UNCHANGED <<attendance, reports, req, loc, calls, firstSeen, lastUpd,
                   lastSub, carried, base, identity>>

\* result = StudentResult(...); result.save()
RInsert(p) ==
    /\ pc[p] = "r_insert"
    /\ IF IsFloat(req[p].test) /\ IsFloat(req[p].exam)
       THEN /\ results' = Append(results, [student |-> req[p].student,
                                           subject |-> req[p].subject,
                                           test |-> ToFloat(req[p].test),
                                           exam |-> ToFloat(req[p].exam)])
            /\ Finish(p, "Scores Saved", "")
       ELSE /\ Finish(p, "Error Occured While Processing Form", "ValueError")
            /\ UNCHANGED results
    /\ UNCHANGED <<attendance, reports, req, loc, calls, firstSeen, lastUpd,
                   lastSub, carried, base, identity>>

\* ------------------------------------------------------ EditResultView.post
\* form.is_valid(): the session, subject and student choices exist and test
\* and exam convert to floats.
FormValid(r) ==
    /\ r.session \in SessionIds
    /\ r.subject \in SubjectIds
    /\ StudentById(r.student) # {}
    /\ IsFloat(r.test) /\ IsFloat(r.exam)

\* The POST arrives with session_year, subject, student, test and exam.
StartEdit(p) ==
    /\ \E se \in SessionInputs, st \in Ids, su \in SubjectInputs, sub \in Submissions :
         Begin(p, [NoReq EXCEPT !.op = "edit", !.session = se, !.student = st,
                                !.subject = su, !.test = sub[1], !.exam = sub[2]],
               "e_get")
    /\ UNCHANGED <<attendance, reports, results, firstSeen, lastUpd, lastSub, carried,
                   identity>>

\* The form is validated, then StudentResult.objects.get SELECTs; an invalid
\* form and any exception of the get end in the same warning.
EGet(p) ==
    /\ pc[p] = "e_get"
    /\ LET m == ResultLookup(req[p].student, req[p].subject)
       IN  IF ~FormValid(req[p])
           THEN Finish(p, "Result Could Not Be Updated", "invalid") /\ UNCHANGED loc
           ELSE IF Cardinality(m) = 1
           THEN /\ loc' = [loc EXCEPT ![p].row = TheOne(m)]
                /\ pc' = [pc EXCEPT ![p] = "e_save"]
                /\ UNCHANGED resp
           ELSE Finish(p, "Result Could Not Be Updated", GetExc(m)) /\ UNCHANGED loc
    /\ UNCHANGED <<attendance, reports, results, req, calls, firstSeen, lastUpd,
                   lastSub, carried, base, identity>>

\* result.exam = exam; result.test = test; result.save(); redirect.
ESave(p) ==
    /\ pc[p] = "e_save"
    /\ results' = [results EXCEPT ![loc[p].row] = UpdatedResult(@, req[p])]
    /\ lastSub' = NoteSub(req[p].student, req[p].subject, <<req[p].test, req[p].exam>>)
    /\ Finish(p, "Result Updated", "")
    /\ UNCHANGED <<attendance, reports, req, loc, calls, firstSeen, lastUpd,
                   carried, base, identity>>

\* ---------------------------------------------------- fetch_student_result
\* The response of the handler for the rows its get matches.
FetchResponse(student, subject) ==
    LET m == ResultLookup(student, subject)
    IN  IF StudentById(student) = {} \/ subject \notin SubjectIds
        THEN [NoResp EXCEPT !.body = "False", !.exc = "Http404"]
        ELSE IF Cardinality(m) = 1
        THEN [NoResp EXCEPT !.body = "json",
                            !.test = results[TheOne(m)].test,
                            !.exam = results[TheOne(m)].exam]
        ELSE [NoResp EXCEPT !.body = "False", !.exc = GetExc(m)]

\* The whole handler is one read.
FetchStudentResult(p) ==
    /\ pc[p] = "idle"
    /\ \A q \in Procs : pc[q] # "done"
    /\ \E st \in Ids, su \in SubjectInputs :
         /\ req' = [req EXCEPT ![p] = [NoReq EXCEPT !.op = "fetch", !.student = st,
                                                    !.subject = su]]
         /\ resp' = [resp EXCEPT ![p] = FetchResponse(st, su)]
    /\ pc' = [pc EXCEPT ![p] = "done"]
    /\ UNCHANGED <<attendance, reports, results, loc, calls, firstSeen, lastUpd,
                   lastSub, carried, base, identity>>

\* ------------------------------------------- CustomUser and its role profile
\* A Python value of user_type: the integer 1/2/3 or the one-character string.
Tags == [t : {"int", "str"}, v : 1..3]

\* `instance.user_type == n` for the integer literal n: a str never equals an int.
PyEq(x, n) == x.t = "int" /\ x.v = n

\* The CharField column holds the string form, whatever was assigned.
Stored(x) == [t |-> "str", v |-> x.v]

\* USER_TYPE: the profile model of a role tag.
RoleOf(v) == CASE v = 1 -> "Admin" [] v = 2 -> "Staff" [] OTHER -> "Student"

\* create_user_profile: the profile rows the post_save hook inserts for user u
\* whose instance holds `tag`.
CreatedProfiles(u, tag, created) ==
    IF ~created THEN <<>>
    ELSE (IF PyEq(tag, 1) THEN <<[role |-> "Admin", admin |-> u]>> ELSE <<>>)
      \o (IF PyEq(tag, 2) THEN <<[role |-> "Staff", admin |-> u]>> ELSE <<>>)
      \o (IF PyEq(tag, 3) THEN <<[role |-> "Student", admin |-> u]>> ELSE <<>>)

\* A CustomUser is created with the role tag `tag`: the row is inserted, then
\* post_save runs create_user_profile and save_user_profile (which inserts
\* nothing) with created = True.
CreateUser ==
    /\ Len(users) < MaxUsers
    /\ \E tag \in Tags :
         /\ users' = Append(users, [user_type |-> Stored(tag), held |-> tag, saves |-> 0])
         /\ profiles' = profiles \o CreatedProfiles(Len(users) + 1, tag, TRUE)
    /\ UNCHANGED <<attendance, reports, results, pc, req, loc, resp, calls,
                   firstSeen, lastUpd, lastSub, carried, base>>

\* A later save of an existing user, through the instance the creator still
\* holds or through one reloaded from the database; post_save runs both hooks
\* with created = False.
SaveUser ==
    /\ \E u \in DOMAIN users, fresh \in BOOLEAN :
         LET tag == IF fresh THEN users[u].user_type ELSE users[u].held
         IN  /\ users[u].saves < MaxSaves
             /\ users' = [users EXCEPT ![u].saves = @ + 1, ![u].held = tag]
             /\ profiles' = profiles \o CreatedProfiles(u, tag, FALSE)
    /\ UNCHANGED <<attendance, reports, results, pc, req, loc, resp, calls,
                   firstSeen, lastUpd, lastSub, carried, base>>

\* ------------------------------------------------------------ specification
AttendanceStart(p) == StartSave(p) \/ StartUpdate(p)

AttendanceRead(p) == GetStudentAttendance(p)

AttendanceRun(p) ==
    \/ SaGetEvent(p) \/ SaCreateEvent(p) \/ SaLoop(p)
    \/ SaCreateReport(p) \/ SaStatus(p)
    \/ UaGetEvent(p) \/ UaLoop(p) \/ UaSave(p)

ResultStep(p) ==
    \/ StartAddResult(p) \/ RGet(p) \/ RUpdate(p) \/ RInsert(p)
    \/ StartEdit(p) \/ EGet(p) \/ ESave(p)
    \/ FetchStudentResult(p)

\* Complete, non-overlapping requests: a single worker serves one at a time.
Worker == CHOOSE p \in Procs : TRUE
NextSeq ==
    \/ AttendanceStart(Worker) \/ AttendanceRun(Worker) \/ AttendanceRead(Worker)
    \/ ResultStep(Worker) \/ Respond(Worker)
SpecSeq == Init /\ [][NextSeq]_vars

\* Attendance requests served concurrently, their database statements
\* interleaving.
NextAttendance ==
    \E p \in Procs :
        AttendanceStart(p) \/ AttendanceRun(p) \/ AttendanceRead(p) \/ Respond(p)
SpecAttendance == Init /\ [][NextAttendance]_vars

\* Result requests served concurrently.
NextResult == \E p \in Procs : ResultStep(p) \/ Respond(p)
SpecResult == Init /\ [][NextResult]_vars

\* Users being created and saved again.
NextIdentity == CreateUser \/ SaveUser
SpecIdentity == Init /\ [][NextIdentity]_vars

\* ------------------------------------------------------------------ claims
SameKey(a, b) == a.session = b.session /\ a.subject = b.subject /\ a.date = b.date

\* No two Attendance rows carry the same (subject, session, date).
UniqueEvents ==
    \A i, j \in DOMAIN attendance : SameKey(attendance[i], attendance[j]) => i = j

\* A save request that has resolved its event.
InSaveLoop(p) ==
    req[p].op = "save" /\ pc[p] \in {"sa_loop", "sa_create_report", "sa_status"}

\* C1: under interleaved save_attendance requests the store never holds two
\* Attendance rows for one (subject, session, date), and two requests for the
\* same triple attach their reports to the same event.
C1_NoDuplicateEventUnderRace ==
    /\ UniqueEvents
    /\ \A p, q \in Procs :
         InSaveLoop(p) /\ InSaveLoop(q) /\ SameKey(req[p], req[q])
            => loc[p].att = loc[q].att

\* C2: in every state reached by complete, non-overlapping save_attendance and
\* update_attendance calls there is at most one Attendance row per
\* (subject, session, date).
C2_OneEventPerKey ==
    \A k \in DOMAIN attendance :
        Cardinality({i \in DOMAIN attendance :
                        SameKey(attendance[i], attendance[k])}) = 1

\* C2 witness: a second save request found the event the first one created:
\* its loop starts while the event already has a report.
C2_Witness ==
    /\ Len(attendance) = 1 /\ calls = 2
    /\ \E p \in Procs : /\ pc[p] = "sa_loop" /\ loc[p].idx = 1
                        /\ \E i \in DOMAIN reports : reports[i].attendance = loc[p].att

AllAtRest == \A p \in Procs : AtRest(p)

\* The report row has been written by an update request.
Updated(i) ==
    \E u \in lastUpd : u.att = reports[i].attendance /\ u.student = reports[i].student

\* C3: after complete save_attendance calls for a (subject, session, date),
\* exactly one Attendance row exists for it and every student's report (one
\* per student) still has the status the first call carried for the student,
\* whatever later save calls carried.
C3_FirstWriteWins ==
    AllAtRest =>
      /\ \A f \in firstSeen :
           LET ev == EventLookup(f.session, f.subject, f.date)
           IN  /\ Cardinality(ev) = 1
               /\ Cardinality(ReportLookup(f.student, TheOne(ev))) = 1
      /\ \A i \in DOMAIN reports :
           ~Updated(i) =>
             \E f \in firstSeen : /\ SameKey(f, attendance[reports[i].attendance])
                                  /\ f.student = reports[i].student
                                  /\ f.status = reports[i].status

\* C3 witness: the second request, a save for a key whose report already
\* exists, carried the opposite status for the student and finished "OK"; the
\* report keeps the first status.
C3_Witness ==
    \E p \in Procs :
        /\ pc[p] = "done" /\ req[p].op = "save" /\ resp[p].body = "OK"
        /\ calls = 2 /\ loc[p].idx = 2 /\ lastUpd = {}
        /\ \E i \in ReportLookup(loc[p].cur.id, loc[p].att) :
               reports[i].status # loc[p].cur.status

\* No two AttendanceReport rows carry the same (student, attendance).
UniqueReports ==
    \A i, j \in DOMAIN reports :
        (reports[i].student = reports[j].student
           /\ reports[i].attendance = reports[j].attendance) => i = j

\* C4: in every reachable state, interleaved save requests included, there is
\* at most one AttendanceReport per (student, event), and once a save request
\* has answered "OK" exactly one for the student it processed last.
C4_OneReportPerPair ==
    /\ UniqueReports
    /\ \A p \in Procs :
         (pc[p] = "done" /\ req[p].op = "save" /\ resp[p].body = "OK" /\ loc[p].idx > 1)
            => Cardinality(ReportLookup(loc[p].cur.id, loc[p].att)) = 1

Stepped(p) == pc'[p] # pc[p] \/ loc'[p] # loc[p]

\* The entry has no report to update: no student has that admin id, or the
\* student has no report for the event.
MissingReport(e, att) ==
    \/ StudentByAdmin(e.id) = {}
    \/ ReportLookup(TheOne(StudentByAdmin(e.id)).id, att) = {}

\* C6: update_attendance never inserts an Attendance or AttendanceReport row;
\* it fails with Http404 when the event does not exist or when an entry has no
\* report, and writes only to a report that exists for (student, event).
C6_UpdateRequiresReport ==
    [][\A p \in Procs :
         (req[p].op = "update" /\ pc[p] # "done" /\ Stepped(p)) =>
           /\ Len(attendance') = Len(attendance)
           /\ Len(reports') = Len(reports)
           /\ (pc[p] = "ua_event" /\ req[p].date \notin DOMAIN attendance)
                => /\ pc'[p] = "done"
                   /\ resp'[p].body = "None" /\ resp'[p].exc = "Http404"
           /\ (pc[p] = "ua_loop" /\ ~(pc'[p] = "done" /\ resp'[p].body = "OK"))
                => IF MissingReport(loc'[p].cur, loc[p].att)
                   THEN /\ pc'[p] = "done"
                        /\ resp'[p].body = "None" /\ resp'[p].exc = "Http404"
                   ELSE pc'[p] = "ua_save"
                          => loc'[p].row \in ReportLookup(
                                 TheOne(StudentByAdmin(loc'[p].cur.id)).id, loc[p].att)
      ]_vars

\* C6 witness: an update for an existing event that holds reports failed with
\* Http404 at a student who has no report for it, and the store holds no
\* report for that pair afterwards.
C6_Witness ==
    \E p \in Procs :
        /\ pc[p] = "done" /\ req[p].op = "update"
        /\ resp[p].body = "None" /\ resp[p].exc = "Http404"
        /\ loc[p].att \in DOMAIN attendance
        /\ StudentByAdmin(loc[p].cur.id) # {}
        /\ MissingReport(loc[p].cur, loc[p].att)
        /\ \E i \in DOMAIN reports : reports[i].attendance = loc[p].att

\* C7: after complete staff_add_result submissions, every (student, subject)
\* with a well-formed submission has exactly one StudentResult row, holding
\* the (test, exam) of the last one, and no other row exists.
C7_UpsertConverges ==
    AllAtRest =>
      /\ \A u \in lastSub :
           \E i \in DOMAIN results :
               /\ ResultLookup(u.student, u.subject) = {i}
               /\ results[i].test = u.test /\ results[i].exam = u.exam
      /\ \A i \in DOMAIN results :
           \E u \in lastSub : u.student = results[i].student
                              /\ u.subject = results[i].subject

\* C7 witness: a second submission, (90, 85), answered "Scores Updated" and the
\* single row of the pair holds (90, 85).
C7_Witness ==
    \E p \in Procs :
        /\ pc[p] = "done" /\ req[p].op = "result" /\ resp[p].body = "Scores Updated"
        /\ req[p].test = "90" /\ req[p].exam = "85" /\ calls = 2
        /\ \E i \in DOMAIN results :
               /\ ResultLookup(req[p].student, req[p].subject) = {i}
               /\ results[i].test = 90 /\ results[i].exam = 85

\* C8: in every reachable state, interleaved staff_add_result requests
\* included, there is at most one StudentResult row per (student, subject).
C8_OneResultPerPair ==
    \A i, j \in DOMAIN results :
        (results[i].student = results[j].student
           /\ results[i].subject = results[j].subject) => i = j

\* C9: fetch_student_result changes no table; it answers with the (test, exam)
\* of a row of the pair whenever the pair has one, and with the not-found
\* signal "False" otherwise.
C9_FetchReadOnlyTotal ==
    [][\A p \in Procs :
         (pc[p] = "idle" /\ pc'[p] = "done" /\ req'[p].op = "fetch") =>
           /\ attendance' = attendance /\ reports' = reports /\ results' = results
           /\ LET m == ResultLookup(req'[p].student, req'[p].subject)
              IN  IF m # {}
                  THEN /\ resp'[p].body = "json"
                       /\ \E i \in m : /\ resp'[p].test = results[i].test
                                       /\ resp'[p].exam = results[i].exam
                  ELSE resp'[p].body = "False"
      ]_vars

\* C10: the step at which save_attendance or update_attendance fails leaves
\* the event and every report as the entries before it wrote them, the loop
\* index stays at the failing entry, and the request does nothing further.
C10_PartialApplication ==
    [][\A p \in Procs :
         /\ (req[p].op \in {"save", "update"} /\ pc[p] # "done"
               /\ pc'[p] = "done" /\ resp'[p].body = "None")
              => /\ attendance' = attendance /\ reports' = reports
                 /\ loc'[p].idx = loc[p].idx
         /\ (req[p].op \in {"save", "update"} /\ pc[p] = "done"
               /\ resp[p].body = "None")
              => /\ attendance' = attendance /\ reports' = reports
                 /\ pc'[p] \in {"done", "idle"}
      ]_vars

\* C10 witness: a save request failed at its second entry (an unknown
\* student); the event and the report of its first entry are in the store.
C10_Witness ==
    \E p \in Procs :
        /\ pc[p] = "done" /\ req[p].op = "save" /\ resp[p].body = "None"
        /\ loc[p].idx = 2 /\ StudentById(loc[p].cur.id) = {}
        /\ calls = 1
        /\ Len(attendance) = 1 /\ Len(reports) = 1
        /\ reports[1].attendance = loc[p].att

\* The value the handler returned is an HttpResponse object (it is not None).
IsHttpResponse(r) == r.body # "None"

\* C11: every failure save_attendance or update_attendance catches reaches the
\* caller as a response of the handler that differs from "OK", and "OK" is
\* returned only when no entry of the list raised.
C11_CoarseErrorReporting ==
    \A p \in Procs :
        (pc[p] = "done" /\ req[p].op \in {"save", "update"}) =>
          /\ resp[p].exc # "" => (IsHttpResponse(resp[p]) /\ resp[p].body # "OK")
          /\ resp[p].body = "OK" => resp[p].exc = ""

\* The profile rows of user u.
ProfilesOf(u) == {i \in DOMAIN profiles : profiles[i].admin = u}

\* C12: every CustomUser has exactly one profile row, of the role its tag
\* names, whether it was created with the tag as an integer or as a string,
\* and however many times it was saved afterwards.
C12_OneMatchingProfile ==
    \A u \in DOMAIN users :
        /\ Cardinality(ProfilesOf(u)) = 1
        /\ \A i \in ProfilesOf(u) : profiles[i].role = RoleOf(users[u].user_type.v)

\* C13: no step of save_attendance, update_attendance, staff_add_result or
\* fetch_student_result changes or deletes an Attendance row that exists: its
\* subject, session and date stay as they were created.
C13_EventsImmutable ==
    [][\A i \in DOMAIN attendance :
          i \in DOMAIN attendance' /\ attendance'[i] = attendance[i]]_vars

\* C13 witness: an event was created, an update_attendance rewrote one of its
\* reports, and a staff_add_result call has then stored a result.
C13_Witness ==
    /\ Len(attendance) = 1 /\ lastUpd # {} /\ results # <<>>
    /\ \E p \in Procs : pc[p] = "done" /\ req[p].op = "result"

\* The report row shows a status some request carried for its (event, student).
ShowsCarried(i) ==
    \E c \in carried : /\ c.att = reports[i].attendance
                        /\ c.student = reports[i].student
                        /\ c.status = reports[i].status

\* C14: in every reachable state, the one between the creation of a report and
\* the status write that follows included, each report shows a status that a
\* request carried for its (student, event); and once every request has
\* finished, a report an update_attendance wrote shows that update's status.
C14_NoPhantomNoLostUpdate ==
    /\ \A i \in DOMAIN reports : ShowsCarried(i)
    /\ AllAtRest =>
          \A u \in lastUpd :
              \A i \in ReportLookup(u.student, u.att) : reports[i].status = u.status

\* C15: when the lookup of staff_add_result runs while the (student, subject)
\* pair has one or more StudentResult rows, the call takes the overwrite
\* branch, and a call that took it never adds a row: a row is inserted only
\* by a call whose lookup found the pair without records.
C15_InsertOnlyWhenAbsent ==
    [][\A p \in Procs :
         (req[p].op = "result" /\ Stepped(p)) =>
           /\ (pc[p] = "r_get" /\ StudentById(req[p].student) # {}
                  /\ req[p].subject \in SubjectIds
                  /\ ResultLookup(req[p].student, req[p].subject) # {})
                => pc'[p] = "r_update"
           /\ (pc[p] \in {"r_update", "r_insert"} /\ loc[p].row # 0)
                => Len(results') = Len(results)
      ]_vars

\* C16: EditResultView.post never changes the number of StudentResult rows;
\* for a valid form and a pair that has a record it overwrites test and exam
\* of the pair's record and reports "Result Updated"; otherwise it leaves the
\* table as it is and reports "Result Could Not Be Updated".
C16_EditUpdateOnly ==
    [][\A p \in Procs :
         (req[p].op = "edit" /\ pc[p] # "done" /\ Stepped(p)) =>
           /\ Len(results') = Len(results)
           /\ pc[p] = "e_get" =>
                IF FormValid(req[p]) /\ ResultLookup(req[p].student, req[p].subject) # {}
                THEN pc'[p] = "e_save" /\ results' = results
                ELSE /\ pc'[p] = "done" /\ results' = results
                     /\ resp'[p].body = "Result Could Not Be Updated"
           /\ pc[p] = "e_save" =>
                /\ pc'[p] = "done" /\ resp'[p].body = "Result Updated"
                /\ \E i \in ResultLookup(req[p].student, req[p].subject) :
                       /\ results'[i].test = ToFloat(req[p].test)
                       /\ results'[i].exam = ToFloat(req[p].exam)
                       /\ \A j \in DOMAIN results : j # i => results'[j] = results[j]
      ]_vars

\* The report row belongs to the student the update entry e resolves to.
Addresses(e, i) ==
    \E st \in StudentByAdmin(e.id) : st.id = reports[i].student

\* C17: a step of update_attendance changes nothing but the status of a report
\* of its event whose student the entry in hand names, leaving every other
\* report, every event and every result as it was; a step of save_attendance
\* changes no report that existed when the call began, and the reports it
\* creates or writes belong to an event with the key of the request.
C17_AttendanceFrame ==
    [][\A p \in Procs :
         /\ (req[p].op = "update" /\ pc[p] # "done" /\ Stepped(p)) =>
               /\ attendance' = attendance /\ results' = results
               /\ Len(reports') = Len(reports)
               /\ \A i \in DOMAIN reports :
                    reports'[i] # reports[i] =>
                      /\ reports'[i].student = reports[i].student
                      /\ reports'[i].attendance = reports[i].attendance
                      /\ reports[i].attendance = req[p].date
                      /\ Addresses(loc[p].cur, i)
         /\ (req[p].op = "save" /\ pc[p] # "done" /\ Stepped(p)) =>
               /\ results' = results
               /\ Len(reports') >= Len(reports)
               /\ \A i \in DOMAIN reports' :
                    (i \notin DOMAIN reports \/ reports'[i] # reports[i]) =>
                      /\ i > base[p]
                      /\ SameKey(attendance'[reports'[i].attendance], req[p])
      ]_vars

\* C17 witness: an update_attendance finished "OK" having flipped the status of
\* one report while the event holds a second report, which a save had created
\* with the opposite status and which still shows it.
C17_Witness ==
    \E p \in Procs, u \in lastUpd, i \in DOMAIN reports :
        /\ pc[p] = "done" /\ req[p].op = "update" /\ resp[p].body = "OK"
        /\ u.att = loc[p].att /\ u.prev # u.status
        /\ reports[i].attendance = u.att /\ reports[i].student # u.student
        /\ reports[i].status # u.status /\ ~Updated(i)

\* The AttendanceReport rows of an event.
ReportsOf(att) == {i \in DOMAIN reports : reports[i].attendance = att}

\* The report update_attendance reaches for the id of an entry: the student by
\* admin_id, then the report of (student, event); 0 when either lookup raises.
Reached(id, att) ==
    IF StudentByAdmin(id) = {} THEN 0
    ELSE ReportOr404(ReportLookup(TheOne(StudentByAdmin(id)).id, att))

\* C18: the ids get_student_attendance returns for an event, fed to
\* update_attendance, reach exactly the reports save_attendance created for
\* the event, each id reaching the report (and so the status) of the student
\* it was returned for.
C18_StudentIdRoundTrip ==
    [][\A p \in Procs :
         (pc[p] = "idle" /\ pc'[p] = "done" /\ req'[p].op = "get_att"
            /\ resp'[p].body = "json") =>
           LET att == req'[p].date
               data == resp'[p].data
           IN  /\ \A k \in DOMAIN data :
                     /\ Reached(data[k].id, att) \in ReportsOf(att)
                     /\ reports[Reached(data[k].id, att)].status = data[k].status
               /\ {Reached(data[k].id, att) : k \in DOMAIN data} = ReportsOf(att)
      ]_vars

====
